---------------------------- MODULE Spec2Model ----------------------------
(***************************************************************************)
(* A model of the SimpleLisp interpreter of learning/lib/simple-lisp.ts:   *)
(* tokenizer, recursive-descent parser, tree-walking evaluator with the    *)
(* special forms quote / if / defun, the primitive table, the printer and  *)
(* the top-level evaluate call on one interpreter instance.                *)
(*                                                                         *)
(* Values.  A LispValue is one of                                          *)
(*   [num |-> n]              a number (integers only in this model)       *)
(*   [sym |-> s]              a symbol, i.e. a host string                 *)
(*   [bool |-> b]             true / false                                 *)
(*   [nil |-> TRUE]           null                                         *)
(*   [undef |-> TRUE]         the host's undefined                         *)
(*   [list |-> <<..>>, id |-> k]   an array; id is its reference identity, *)
(*                            so that === on two arrays is equality of ids *)
(* An environment is a function from names to bindings: a value, or        *)
(*   [prim |-> name]          a primitive of createGlobalEnvironment       *)
(*   [fn |-> name, params |-> p, body |-> b, env |-> e]  a defun closure;  *)
(*                            e is the reference to the environment object *)
(*                            the arrow function closes over               *)
(*   [host |-> "Object"]      what the prototype chain yields              *)
(***************************************************************************)
EXTENDS Integers, Sequences, FiniteSets, TLC

VARIABLES
    env,        \* this.env: the global environment of the instance
    output,     \* this.output: the buffer of printed lines
    ret,        \* what the last evaluate call returned or threw
    source,     \* history: the code given to the last evaluate call
    envBefore,  \* history: this.env when the last evaluate call started
    previous,   \* history: source, ret and output before the last evaluate call
    definitions,\* history: each closure bound in this.env so far, with what
                \* this.env held when its defun was evaluated
    log,        \* history: what the evaluator did during the last call
    nextId,     \* the next fresh array identity
    calls,      \* number of evaluate calls made so far
    tokens,     \* parser specification: the token sequence given to parse
    parsed      \* parser specification: the outcome of parse(tokens)

vars ==
    <<env, output, ret, source, envBefore, previous, definitions, log, nextId, calls,
      tokens, parsed>>

(***************************************************************************)
(* Bounds of the model.                                                    *)
(***************************************************************************)
MaxCalls == 3
MaxTokens == 4
MaxDepth == 5

(***************************************************************************)
(* Host strings.                                                           *)
(***************************************************************************)
Whitespace == {" ", "\t", "\n"}

Digits == {"0", "1", "2", "3", "4", "5", "6", "7", "8", "9"}

DigitValue ==
    "0" :> 0 @@ "1" :> 1 @@ "2" :> 2 @@ "3" :> 3 @@ "4" :> 4 @@
    "5" :> 5 @@ "6" :> 6 @@ "7" :> 7 @@ "8" :> 8 @@ "9" :> 9

UpperToLower ==
    "A" :> "a" @@ "B" :> "b" @@ "C" :> "c" @@ "D" :> "d" @@ "E" :> "e" @@
    "F" :> "f" @@ "G" :> "g" @@ "H" :> "h" @@ "I" :> "i" @@ "J" :> "j" @@
    "K" :> "k" @@ "L" :> "l" @@ "M" :> "m" @@ "N" :> "n" @@ "O" :> "o" @@
    "P" :> "p" @@ "Q" :> "q" @@ "R" :> "r" @@ "S" :> "s" @@ "T" :> "t" @@
    "U" :> "u" @@ "V" :> "v" @@ "W" :> "w" @@ "X" :> "x" @@ "Y" :> "y" @@
    "Z" :> "z"

UpperCaseLetters == DOMAIN UpperToLower

LowerCaseLetters == {UpperToLower[c] : c \in UpperCaseLetters}

RECURSIVE ToLowerCase(_)
ToLowerCase(s) ==
    IF s = "" THEN ""
    ELSE LET c == SubSeq(s, 1, 1)
         IN  (IF c \in UpperCaseLetters THEN UpperToLower[c] ELSE c)
                 \o ToLowerCase(Tail(s))

RECURSIVE Join(_, _)
Join(strs, sep) ==
    IF strs = <<>> THEN ""
    ELSE IF Len(strs) = 1 THEN strs[1]
    ELSE strs[1] \o sep \o Join(Tail(strs), sep)

(***************************************************************************)
(* Tokenizer.                                                              *)
(***************************************************************************)
\* .replace(/\(/g, ' ( ').replace(/\)/g, ' ) ').replace(/'/g, " ' "), by halves
RECURSIVE PadDelimiters(_)
PadDelimiters(input) ==
    IF input = "" THEN ""
    ELSE IF Len(input) = 1
    THEN IF input \in {"(", ")", "'"} THEN " " \o input \o " " ELSE input
    ELSE LET half == Len(input) \div 2
         IN  PadDelimiters(SubSeq(input, 1, half))
                 \o PadDelimiters(SubSeq(input, half + 1, Len(input)))

\* .trim().split(/\s+/).filter(token => token.length > 0): the maximal runs
\* of characters that are not whitespace, in order
SplitWhitespace(text) ==
    LET IsSpace(i) == SubSeq(text, i, i) \in Whitespace
        starts == {i \in 1..Len(text) : ~IsSpace(i) /\ (i = 1 \/ IsSpace(i - 1))}
        EndOf(i) == CHOOSE j \in i..Len(text) :
                        /\ \A k \in i..j : ~IsSpace(k)
                        /\ (j = Len(text) \/ IsSpace(j + 1))
        Nth(n) == CHOOSE i \in starts : Cardinality({j \in starts : j < i}) = n - 1
    IN  [n \in 1..Cardinality(starts) |-> SubSeq(text, Nth(n), EndOf(Nth(n)))]

tokenize(input) == SplitWhitespace(PadDelimiters(input))

(***************************************************************************)
(* Values and errors.                                                      *)
(***************************************************************************)
Num(n) == [num |-> n]
Sym(s) == [sym |-> s]
Bool(b) == [bool |-> b]
Nil == [nil |-> TRUE]
Undef == [undef |-> TRUE]
List(elems, id) == [list |-> elems, id |-> id]

IsNum(v) == DOMAIN v = {"num"}
IsSym(v) == DOMAIN v = {"sym"}
IsBool(v) == DOMAIN v = {"bool"}
IsNil(v) == DOMAIN v = {"nil"}
IsUndef(v) == DOMAIN v = {"undef"}
IsList(v) == DOMAIN v = {"list", "id"}
IsPrim(v) == DOMAIN v = {"prim"}
IsHost(v) == DOMAIN v = {"host"}
IsUserFn(v) == DOMAIN v = {"fn", "params", "body", "env"}
IsFunction(v) == IsPrim(v) \/ IsHost(v) \/ IsUserFn(v)

UnmatchedParenthesis == "Unmatched opening parenthesis"
UnexpectedParenthesis == "Unexpected closing parenthesis"
DanglingQuote == "TypeError: Cannot read properties of undefined (reading 'toLowerCase')"
UndefinedSymbol(name) == "Undefined symbol: " \o name
FunctionAsValue(name) ==
    "Cannot use function " \o name \o " as value (missing parentheses?)"
NotAFunction(text) == "Not a function: " \o text
CannotEvaluate(text) == "Cannot evaluate: " \o text
StackOverflow == "RangeError: Maximum call stack size exceeded"
NotModelled == "not modelled"

(***************************************************************************)
(* Parser.  Number(token) is modelled for decimal integers with an         *)
(* optional sign; every other token is a symbol.                           *)
(***************************************************************************)
RECURSIVE AllDigits(_)
AllDigits(s) ==
    IF s = "" THEN TRUE
    ELSE SubSeq(s, 1, 1) \in Digits /\ AllDigits(Tail(s))

IsNumeric(token) ==
    LET body == IF SubSeq(token, 1, 1) \in {"-", "+"} THEN Tail(token) ELSE token
    IN  body # "" /\ AllDigits(body)

RECURSIVE DigitsToNat(_, _)
DigitsToNat(s, acc) ==
    IF s = "" THEN acc
    ELSE DigitsToNat(Tail(s), 10 * acc + DigitValue[SubSeq(s, 1, 1)])

ToNumber(token) ==
    IF SubSeq(token, 1, 1) = "-" THEN 0 - DigitsToNat(Tail(token), 0)
    ELSE IF SubSeq(token, 1, 1) = "+" THEN DigitsToNat(Tail(token), 0)
    ELSE DigitsToNat(token, 0)

ParseOk(expr, index, id) == [ok |-> TRUE, expr |-> expr, index |-> index, id |-> id]
ParseFail(message) == [ok |-> FALSE, error |-> message]

\* the token kept as written
SymbolOfTokenVerbatim(token) == Sym(token)

\* line 163: token.toLowerCase()
SymbolOfToken(token) == Sym(ToLowerCase(token))

RECURSIVE parseExpression(_, _, _)
RECURSIVE ParseListItems(_, _, _, _)

\* lines 135-139: the while loop that collects the elements of a list
ParseListItems(toks, i, list, id) ==
    IF i <= Len(toks) /\ toks[i] # ")"
    THEN LET r == parseExpression(toks, i, id)
         IN  IF r.ok THEN ParseListItems(toks, r.index, Append(list, r.expr), r.id)
             ELSE r
    ELSE [ok |-> TRUE, list |-> list, index |-> i, id |-> id]

\* the end of a list without the test of line 141
CloseListUnchecked(toks, items, listId) ==
    ParseOk(List(items.list, listId), items.index + 1, items.id)

\* lines 141-145: the end of a list
CloseList(toks, items, listId) ==
    IF items.index > Len(toks)
    THEN ParseFail(UnmatchedParenthesis)
    ELSE ParseOk(List(items.list, listId), items.index + 1, items.id)

\* index is 1-based here; tokens[index] is undefined past the end
parseExpression(toks, index, id) ==
    IF index > Len(toks)
    THEN ParseFail(DanglingQuote)
    ELSE LET token == toks[index]
         IN  IF token = "("
             THEN LET items == ParseListItems(toks, index + 1, <<>>, id + 1)
                  IN  IF items.ok THEN CloseList(toks, items, id) ELSE items
             ELSE IF token = ")"
             THEN ParseFail(UnexpectedParenthesis)
             ELSE IF token = "'"
             THEN LET r == parseExpression(toks, index + 1, id + 1)
                  IN  IF r.ok
                      THEN ParseOk(List(<<Sym("quote"), r.expr>>, id), r.index, r.id)
                      ELSE r
             ELSE IF IsNumeric(token)
             THEN ParseOk(Num(ToNumber(token)), index + 1, id)
             ELSE ParseOk(SymbolOfToken(token), index + 1, id)

RECURSIVE ParseAll(_, _, _, _)
ParseAll(toks, i, result, id) ==
    IF i <= Len(toks)
    THEN LET r == parseExpression(toks, i, id)
         IN  IF r.ok THEN ParseAll(toks, r.index, Append(result, r.expr), r.id)
             ELSE r
    ELSE [ok |-> TRUE, exprs |-> result, index |-> i, id |-> id]

\* parse applied to an already tokenized input
parseTokens(toks, id) == ParseAll(toks, 1, <<>>, id)

parse(input, id) == parseTokens(tokenize(input), id)

(***************************************************************************)
(* Printer.                                                                *)
(***************************************************************************)
RECURSIVE stringify(_)
RECURSIVE StringifyAll(_)

StringifyAll(values) ==
    IF values = <<>> THEN <<>>
    ELSE <<stringify(Head(values))>> \o StringifyAll(Tail(values))

stringify(value) ==
    IF IsNil(value) THEN "NIL"
    ELSE IF IsBool(value) THEN (IF value.bool THEN "T" ELSE "NIL")
    ELSE IF IsNum(value) THEN ToString(value.num)
    ELSE IF IsSym(value) THEN value.sym
    ELSE IF IsList(value) THEN "(" \o Join(StringifyAll(value.list), " ") \o ")"
    ELSE IF IsUndef(value) THEN "undefined"
    ELSE "[object Object]"

(***************************************************************************)
(* Environments.  An environment object is a host object literal, so a     *)
(* property read falls back to Object.prototype.  After lowercasing, the   *)
(* only inherited key a symbol can name is "constructor" (and the          *)
(* accessor "__proto__", which no source text of this model uses).         *)
(***************************************************************************)
PrimitiveNames ==
    {"+", "-", "*", "/", "=", "<", ">", "<=", ">=",
     "list", "cons", "car", "cdr", "length", "append",
     "atom", "null", "numberp", "symbolp",
     "and", "or", "not", "print"}

createGlobalEnvironment ==
    [n \in PrimitiveNames \cup {"t", "nil"} |->
        IF n = "t" THEN Bool(TRUE)
        ELSE IF n = "nil" THEN Nil
        ELSE [prim |-> n]]

ObjectPrototype == "constructor" :> [host |-> "Object"]

GetProperty(envmap, name) ==
    IF name \in DOMAIN envmap THEN envmap[name]
    ELSE IF name \in DOMAIN ObjectPrototype THEN ObjectPrototype[name]
    ELSE Undef

SetProperty(envmap, name, value) ==
    [n \in DOMAIN envmap \cup {name} |-> IF n = name THEN value ELSE envmap[n]]

GlobalRef == 1

(***************************************************************************)
(* Evaluation threads a record st = [heap, out, id, log]:                  *)
(*   heap  the environment objects alive during the call, heap[GlobalRef]  *)
(*         being this.env;  out  this.output;  id  the next fresh array    *)
(*   identity;  log  the history of what the evaluator did.                *)
(* An outcome is [st, val, err]; err = "" means a normal return, anything  *)
(* else is the message of the Error thrown.                                *)
(***************************************************************************)
Return(st, value) == [st |-> st, val |-> value, err |-> ""]
Throw(st, message) == [st |-> st, val |-> Undef, err |-> message]
Logged(st, event) == [st EXCEPT !.log = Append(@, event)]
At(seq, i) == IF i \in DOMAIN seq THEN seq[i] ELSE Undef
Slice(seq, from) == IF from > Len(seq) THEN <<>> ELSE SubSeq(seq, from, Len(seq))

\* a fresh array holding elems
NewList(st, elems) ==
    Return([st EXCEPT !.id = @ + 1], List(elems, st.id))

\* the host's ToBoolean, as used by the conditional operator and by !x
ToBoolean(v) ==
    IF IsBool(v) THEN v.bool
    ELSE IF IsNil(v) \/ IsUndef(v) THEN FALSE
    ELSE IF IsNum(v) THEN v.num # 0
    ELSE IF IsSym(v) THEN v.sym # ""
    ELSE TRUE

\* x !== false && x !== null of and / or
NotFalseNotNull(v) == ~(IsBool(v) /\ ~v.bool) /\ ~IsNil(v)

\* a === b: arrays and objects compare by identity, which the id carries
StrictEquals(a, b) == a = b

RECURSIVE SumOf(_)
SumOf(nums) == IF nums = <<>> THEN 0 ELSE SumOf(SubSeq(nums, 1, Len(nums) - 1)) + nums[Len(nums)].num

RECURSIVE ProductOf(_)
ProductOf(nums) == IF nums = <<>> THEN 1 ELSE ProductOf(SubSeq(nums, 1, Len(nums) - 1)) * nums[Len(nums)].num

RECURSIVE DifferenceOf(_)
DifferenceOf(nums) ==
    IF Len(nums) = 1 THEN nums[1].num
    ELSE DifferenceOf(SubSeq(nums, 1, Len(nums) - 1)) - nums[Len(nums)].num

\* left-fold division; the model covers the folds that stay in the integers
RECURSIVE QuotientOf(_)
QuotientOf(nums) ==
    IF Len(nums) = 1 THEN nums[1].num
    ELSE QuotientOf(SubSeq(nums, 1, Len(nums) - 1)) \div nums[Len(nums)].num

RECURSIVE ExactQuotient(_)
ExactQuotient(nums) ==
    IF Len(nums) = 1 THEN TRUE
    ELSE LET front == SubSeq(nums, 1, Len(nums) - 1)
             d == nums[Len(nums)].num
         IN  /\ ExactQuotient(front)
             /\ d > 0
             /\ QuotientOf(front) >= 0
             /\ QuotientOf(front) % d = 0

RECURSIVE Concatenated(_)
Concatenated(lists) ==
    IF lists = <<>> THEN <<>> ELSE Head(lists).list \o Concatenated(Tail(lists))

AllNums(args) == \A i \in DOMAIN args : IsNum(args[i])
AllLists(args) == \A i \in DOMAIN args : IsList(args[i])

EmptyReduce == "TypeError: Reduce of empty array with no initial value"

ApplyPrimitive(name, args, st) ==
    LET a == At(args, 1)
        b == At(args, 2)
    IN  CASE name = "+" ->
               IF AllNums(args) THEN Return(st, Num(SumOf(args))) ELSE Throw(st, NotModelled)
          [] name = "*" ->
               IF AllNums(args) THEN Return(st, Num(ProductOf(args))) ELSE Throw(st, NotModelled)
          [] name = "-" ->
               IF ~AllNums(args) THEN Throw(st, NotModelled)
               ELSE IF Len(args) = 0 THEN Throw(st, EmptyReduce)
               ELSE IF Len(args) = 1 THEN Return(st, Num(0 - a.num))
               ELSE Return(st, Num(DifferenceOf(args)))
          [] name = "/" ->
               IF Len(args) = 0 THEN Throw(st, EmptyReduce)
               ELSE IF AllNums(args) /\ ExactQuotient(args)
               THEN Return(st, Num(QuotientOf(args)))
               ELSE Throw(st, NotModelled)
          [] name = "=" -> Return(st, Bool(StrictEquals(a, b)))
          [] name \in {"<", ">", "<=", ">="} ->
               IF IsNum(a) /\ IsNum(b)
               THEN Return(st, Bool(CASE name = "<" -> a.num < b.num
                                      [] name = ">" -> a.num > b.num
                                      [] name = "<=" -> a.num <= b.num
                                      [] name = ">=" -> a.num >= b.num))
               ELSE Throw(st, NotModelled)
          [] name = "list" -> NewList(st, args)
          [] name = "cons" ->
               NewList(st, <<a>> \o (IF IsList(b) THEN b.list ELSE <<b>>))
          [] name = "car" ->
               IF IsList(a) THEN Return(st, At(a.list, 1)) ELSE Throw(st, NotModelled)
          [] name = "cdr" ->
               IF IsList(a) THEN NewList(st, Slice(a.list, 2)) ELSE Throw(st, NotModelled)
          [] name = "length" ->
               Return(st, Num(IF IsList(a) THEN Len(a.list) ELSE 0))
          [] name = "append" ->
               IF AllLists(args) THEN NewList(st, Concatenated(args))
               ELSE Throw(st, NotModelled)
          [] name = "atom" -> Return(st, Bool(~IsList(a)))
          [] name = "null" -> Return(st, Bool(IsNil(a) \/ (IsList(a) /\ Len(a.list) = 0)))
          [] name = "numberp" -> Return(st, Bool(IsNum(a)))
          [] name = "symbolp" -> Return(st, Bool(IsSym(a)))
          [] name = "and" ->
               Return(st, Bool(\A i \in DOMAIN args : NotFalseNotNull(args[i])))
          [] name = "or" ->
               Return(st, Bool(\E i \in DOMAIN args : NotFalseNotNull(args[i])))
          [] name = "not" -> Return(st, Bool(~ToBoolean(a)))
          [] name = "print" ->
               LET line == Join(StringifyAll(args), " ")
               IN  Return(Logged([st EXCEPT !.out = Append(@, line)],
                                 [ev |-> "print", line |-> line]),
                          Nil)

(***************************************************************************)
(* Evaluator.                                                              *)
(***************************************************************************)
\* { ...this.env } in place of { ...env }
CopyOfInstanceEnvironment(st, closure) == st.heap[GlobalRef]

\* line 205: const localEnv = { ...env }, env being the environment object
\* the closure refers to, read when the function is called
CopyOfEnvironment(st, closure) == st.heap[closure.env]

\* const localEnv = env: the same object, no copy
AliasReference(st, closure) == closure.env

\* line 205: the object literal is a new environment object
LocalReference(st, closure) == Len(st.heap) + 1

StoreEnvironment(heap, ref, envmap) ==
    IF ref > Len(heap) THEN Append(heap, envmap) ELSE [heap EXCEPT ![ref] = envmap]

\* lines 206-208: params.forEach((param, i) => localEnv[param] = args[i])
RECURSIVE BindParameters(_, _, _, _)
BindParameters(localEnv, params, args, i) ==
    IF i > Len(params) THEN localEnv
    ELSE BindParameters(SetProperty(localEnv, params[i].sym, At(args, i)),
                        params, args, i + 1)

\* lines 204-214 hold a closure over env, name, params and body
Closure(name, params, body, e) ==
    [fn |-> name, params |-> params, body |-> body, env |-> e]

\* this.env[name] = ... in place of env[name] = ...
DefunTargetInstance(e) == GlobalRef

\* line 204: env[name] = ...; the write goes to the environment the defun is
\* evaluated in
DefunTarget(e) == e

\* line 197: condition ? ... : ...
ConditionHolds(condition) == ToBoolean(condition)

RECURSIVE evaluateExpression(_, _, _, _)
RECURSIVE EvaluateArguments(_, _, _, _, _, _)
RECURSIVE EvaluateBody(_, _, _, _, _, _)
RECURSIVE ApplyFunction(_, _, _, _, _)

\* lines 171-182: variable lookup
LookupVariable(name, e, st) ==
    LET envmap == st.heap[e]
        value == GetProperty(envmap, name)
        event == [ev |-> "lookup", name |-> name, in |-> e,
                  own |-> name \in DOMAIN envmap, found |-> value]
    IN  IF IsUndef(value)
        THEN Throw(Logged(st, event @@ [err |-> UndefinedSymbol(name)]),
                   UndefinedSymbol(name))
        ELSE IF IsFunction(value)
        THEN Throw(Logged(st, event @@ [err |-> FunctionAsValue(name)]),
                   FunctionAsValue(name))
        ELSE Return(Logged(st, event @@ [err |-> ""]), value)

\* line 230: expr.slice(1).map(arg => this.evaluateExpression(arg, env))
EvaluateArguments(exprs, i, e, st, depth, acc) ==
    IF i > Len(exprs) THEN Return(st, acc)
    ELSE LET r == evaluateExpression(exprs[i], e, st, depth)
         IN  IF r.err # "" THEN r
             ELSE EvaluateArguments(exprs, i + 1, e, r.st, depth, Append(acc, r.val))

\* lines 209-213: the body forms in order, the value of the last one
EvaluateBody(forms, i, localRef, st, depth, result) ==
    IF i > Len(forms) THEN Return(st, result)
    ELSE LET r == evaluateExpression(forms[i], localRef, st, depth)
         IN  IF r.err # "" THEN r
             ELSE EvaluateBody(forms, i + 1, localRef, r.st, depth, r.val)

\* line 231: fn(...args), called from an expression evaluated in environment e
ApplyFunction(fn, args, e, st, depth) ==
    IF IsPrim(fn) THEN
        LET r == ApplyPrimitive(fn.prim, args, st)
        IN  IF r.err # "" THEN r
            ELSE [r EXCEPT !.st = Logged(@, [ev |-> "prim", name |-> fn.prim,
                                              args |-> args, val |-> r.val])]
    ELSE IF IsHost(fn) THEN
        Return([st EXCEPT !.id = @ + 1], [object |-> fn.host, id |-> st.id])
    ELSE IF depth = 0 THEN Throw(st, StackOverflow)
    ELSE IF ~IsList(fn.params) \/ \E i \in DOMAIN fn.params.list : ~IsSym(fn.params.list[i])
    THEN Throw(st, NotModelled)
    ELSE
        LET localEnv == BindParameters(CopyOfEnvironment(st, fn), fn.params.list, args, 1)
            localRef == LocalReference(st, fn)
            entered == Logged([st EXCEPT !.heap = StoreEnvironment(@, localRef, localEnv)],
                              [ev |-> "call", fn |-> fn.fn, closure |-> fn,
                               args |-> args, localRef |-> localRef,
                               localEnv |-> localEnv])
            r == EvaluateBody(fn.body, 1, localRef, entered, depth - 1, Nil)
        IN  IF r.err # "" THEN r
            ELSE [r EXCEPT !.st = Logged(@, [ev |-> "return", fn |-> fn.fn,
                                              localRef |-> localRef,
                                              callerBefore |-> st.heap[e],
                                              callerAfter |-> r.st.heap[e],
                                              globalBefore |-> st.heap[GlobalRef],
                                              globalAfter |-> r.st.heap[GlobalRef],
                                              val |-> r.val])]

evaluateExpression(expr, e, st, depth) ==
    IF IsNum(expr) THEN Return(st, expr)
    ELSE IF IsNil(expr) \/ IsBool(expr) THEN Return(st, expr)
    ELSE IF IsSym(expr) THEN LookupVariable(expr.sym, e, st)
    ELSE IF IsList(expr) THEN
        IF Len(expr.list) = 0 THEN Return(st, Nil)
        ELSE
        LET first == expr.list[1]
        IN  IF first = Sym("quote") THEN Return(st, At(expr.list, 2))
            ELSE IF first = Sym("if") THEN
                LET c == evaluateExpression(At(expr.list, 2), e, st, depth)
                IN  IF c.err # "" THEN c
                    ELSE IF ConditionHolds(c.val)
                    THEN evaluateExpression(At(expr.list, 3), e,
                             Logged(c.st, [ev |-> "if", condition |-> c.val,
                                           branch |-> "then"]), depth)
                    ELSE evaluateExpression(At(expr.list, 4), e,
                             Logged(c.st, [ev |-> "if", condition |-> c.val,
                                           branch |-> "else"]), depth)
            ELSE IF first = Sym("defun") THEN
                LET name == At(expr.list, 2)
                    params == At(expr.list, 3)
                    body == Slice(expr.list, 4)
                    target == DefunTarget(e)
                    closure == Closure(name.sym, params, body, e)
                IN  IF ~IsSym(name) THEN Throw(st, NotModelled)
                    ELSE Return(
                        Logged([st EXCEPT !.heap[target] =
                                    SetProperty(@, name.sym, closure)],
                               [ev |-> "defun", name |-> name.sym, in |-> e,
                                target |-> target,
                                closure |-> closure, envAtDefun |-> st.heap[e]]),
                        name)
            ELSE
                LET f == IF IsSym(first)
                         THEN Return(Logged(st, [ev |-> "resolve", name |-> first.sym,
                                                 in |-> e,
                                                 own |-> first.sym \in DOMAIN st.heap[e],
                                                 found |-> GetProperty(st.heap[e], first.sym)]),
                                     GetProperty(st.heap[e], first.sym))
                         ELSE evaluateExpression(first, e, st, depth)
                IN  IF f.err # "" THEN f
                    ELSE IF ~IsFunction(f.val)
                    THEN Throw(f.st, NotAFunction(stringify(first)))
                    ELSE LET a == EvaluateArguments(Slice(expr.list, 2), 1, e, f.st,
                                                    depth, <<>>)
                         IN  IF a.err # "" THEN a
                             ELSE ApplyFunction(f.val, a.val, e, a.st, depth)
    ELSE Throw(st, CannotEvaluate(stringify(expr)))

(***************************************************************************)
(* Top-level evaluate.                                                     *)
(***************************************************************************)
\* lines 244-246: each expression in turn against this.env
RECURSIVE EvaluateAll(_, _, _, _)
EvaluateAll(exprs, i, st, lastResult) ==
    IF i > Len(exprs) THEN Return(st, lastResult)
    ELSE LET r == evaluateExpression(exprs[i], GlobalRef, st, MaxDepth)
         IN  IF r.err # "" THEN r
             ELSE EvaluateAll(exprs, i + 1, r.st, r.val)

\* the top-level expressions evaluated against a copy of this.env
EnvironmentAfterOnCopy(genv, st) == genv

\* line 245: this.env itself is the environment of the top-level expressions,
\* so what they bind is in this.env when the call ends, however it ends
EnvironmentAfter(genv, st) == st.heap[GlobalRef]

\* the buffer kept from the call before
KeepOutput(buffer) == buffer

\* line 238: this.output = []
ResetOutput(buffer) == <<>>

\* line 249: the output text of a call
OutputText(lines, result) ==
    IF Len(lines) > 0 THEN Join(lines, "\n") \o "\n" \o result ELSE result

Returned(result, text) == [status |-> "returned", result |-> result, output |-> text]
Threw(message) == [status |-> "threw", error |-> message]
NotCalled == [status |-> "none"]

\* evaluate as a transaction: a call that throws puts this.env back to what
\* it was when the call started
evaluateRolledBack(code, genv, buffer, id) ==
    LET start == [heap |-> <<genv>>, out |-> ResetOutput(buffer), id |-> id, log |-> <<>>]
        p == parse(code, id)
    IN  IF ~p.ok
        THEN [env |-> genv, output |-> start.out, id |-> id, log |-> <<>>,
              ret |-> Threw(p.error)]
        ELSE LET r == EvaluateAll(p.exprs, 1, [start EXCEPT !.id = p.id], Nil)
                 result == stringify(r.val)
             IN  [env |-> IF r.err # "" THEN genv ELSE EnvironmentAfter(genv, r.st),
                  output |-> r.st.out,
                  id |-> r.st.id, log |-> r.st.log,
                  ret |-> IF r.err # "" THEN Threw(r.err)
                          ELSE Returned(result, OutputText(r.st.out, result))]

\* evaluate(code) on an instance whose this.env is genv and whose this.output
\* is buffer: the new this.env, the new this.output, and what the call
\* returned or threw
evaluate(code, genv, buffer, id) ==
    LET start == [heap |-> <<genv>>, out |-> ResetOutput(buffer), id |-> id, log |-> <<>>]
        p == parse(code, id)
    IN  IF ~p.ok
        THEN [env |-> genv, output |-> start.out, id |-> id, log |-> <<>>,
              ret |-> Threw(p.error)]
        ELSE LET r == EvaluateAll(p.exprs, 1, [start EXCEPT !.id = p.id], Nil)
                 result == stringify(r.val)
             IN  [env |-> EnvironmentAfter(genv, r.st), output |-> r.st.out,
                  id |-> r.st.id, log |-> r.st.log,
                  ret |-> IF r.err # "" THEN Threw(r.err)
                          ELSE Returned(result, OutputText(r.st.out, result))]

(***************************************************************************)
(* The source texts the model feeds to evaluate.                           *)
(***************************************************************************)
Sources ==
    { "(defun f () (g))",
      "(defun g () 1)",
      "(defun g () 2) (f)",
      "(defun fact (n) (if (= n 0) 1 (* n (fact (- n 1))))) (fact 3)",
      "(defun k (x) (defun inner () x) (inner)) (k 7)",
      "(print 'hello) 42",
      "(defun p () (print 1 'a)) (p) (print (list 2 3)) nope",
      "(p)",
      "(defun q () 3) (q",
      "(if (> 3 2) 'yes 'no)",
      "(if 0 'yes 'no)",
      "(= '(1 2) '(1 2))",
      "'Yes",
      "constructor",
      "(+ 1 2 3)",
      "(* (+ 1 2) (- 5 3))",
      "(defun + (a b) 0)",
      "(+ 1 2" }

(***************************************************************************)
(* The interpreter instance as a state machine.                            *)
(***************************************************************************)
Init ==
    /\ env = createGlobalEnvironment
    /\ output = <<>>
    /\ ret = NotCalled
    /\ source = ""
    /\ envBefore = createGlobalEnvironment
    /\ previous = [source |-> "", ret |-> NotCalled, output |-> <<>>]
    /\ definitions = {}
    /\ log = <<>>
    /\ nextId = 1
    /\ calls = 0
    /\ tokens = <<>>
    /\ parsed = NotCalled

\* new SimpleLisp()
Construct ==
    /\ calls < MaxCalls
    /\ env' = createGlobalEnvironment
    /\ output' = <<>>
    /\ ret' = NotCalled
    /\ source' = ""
    /\ envBefore' = createGlobalEnvironment
    /\ previous' = [source |-> "", ret |-> NotCalled, output |-> <<>>]
    /\ definitions' = {}
    /\ log' = <<>>
    /\ UNCHANGED <<nextId, calls, tokens, parsed>>

Evaluate(code) ==
    /\ calls < MaxCalls
    /\ \E r \in {evaluate(code, env, output, nextId)} :
           /\ env' = r.env
           /\ output' = r.output
           /\ ret' = r.ret
           /\ log' = r.log
           /\ nextId' = r.id
           /\ definitions' = definitions \cup
                  {[closure |-> r.log[d].closure, envAtDefun |-> r.log[d].envAtDefun] :
                      d \in {d \in DOMAIN r.log : /\ r.log[d].ev = "defun"
                                                  /\ r.log[d].target = GlobalRef}}
    /\ source' = code
    /\ envBefore' = env
    /\ previous' = [source |-> source, ret |-> ret, output |-> output]
    /\ calls' = calls + 1
    /\ UNCHANGED <<tokens, parsed>>

Next ==
    \/ Construct
    \/ \E code \in Sources : Evaluate(code)

Spec == Init /\ [][Next]_vars

(***************************************************************************)
(* The parser on its own: every token sequence up to MaxTokens.            *)
(***************************************************************************)
TokenAlphabet == {"(", ")", "'", "7", "Ab"}

TokenSequences == UNION {[1..n -> TokenAlphabet] : n \in 0..MaxTokens}

InitParse ==
    /\ env = createGlobalEnvironment
    /\ output = <<>>
    /\ ret = NotCalled
    /\ source = ""
    /\ envBefore = createGlobalEnvironment
    /\ previous = [source |-> "", ret |-> NotCalled, output |-> <<>>]
    /\ definitions = {}
    /\ log = <<>>
    /\ nextId = 1
    /\ calls = 0
    /\ tokens \in TokenSequences
    /\ parsed = NotCalled

Parse ==
    /\ parsed = NotCalled
    /\ \E p \in {parseTokens(tokens, nextId)} :
           parsed' = IF p.ok
                     THEN [status |-> "returned", exprs |-> p.exprs, index |-> p.index]
                     ELSE Threw(p.error)
    /\ UNCHANGED <<env, output, ret, source, envBefore, previous, definitions, log,
                   nextId, calls, tokens>>

NextParse == Parse

SpecParse == InitParse /\ [][NextParse]_vars

(***************************************************************************)
(* Reading the history of a call.                                          *)
(***************************************************************************)
Events(kind) == {i \in DOMAIN log : log[i].ev = kind}

Observations == Events("lookup") \cup Events("resolve")

\* the environment object ref as it stood just before event i: what it held
\* when it came into being, then the defuns evaluated in it since
RECURSIVE WithDefuns(_, _, _, _)
WithDefuns(envmap, ref, from, to) ==
    IF from >= to THEN envmap
    ELSE WithDefuns(IF log[from].ev = "defun" /\ log[from].target = ref
                    THEN SetProperty(envmap, log[from].name, log[from].closure)
                    ELSE envmap,
                    ref, from + 1, to)

CallOf(ref) == CHOOSE c \in Events("call") : log[c].localRef = ref

EnvAt(ref, i) ==
    IF ref = GlobalRef THEN WithDefuns(envBefore, GlobalRef, 1, i)
    ELSE WithDefuns(log[CallOf(ref)].localEnv, ref, CallOf(ref) + 1, i)

ParameterNames(closure) == {closure.params.list[i].sym : i \in DOMAIN closure.params.list}

\* the names the body of the call c has bound itself before event j
DefinedInBody(c, j) ==
    {log[d].name : d \in {d \in Events("defun") : c < d /\ d < j
                                                  /\ log[d].target = log[c].localRef}}

\* event j is a read of a name in the body of call c that neither a
\* parameter nor a defun of the body shadows
ReadsOuterName(c, j) ==
    /\ c \in Events("call")
    /\ j \in Observations
    /\ log[j].in = log[c].localRef
    /\ log[j].name \notin ParameterNames(log[c].closure)
    /\ log[j].name \notin DefinedInBody(c, j)

\* what the defining environment of a closure held when its defun was
\* evaluated
DefinitionEnvironments(closure) ==
    {r.envAtDefun : r \in {r \in definitions : r.closure = closure}}
        \cup {log[d].envAtDefun : d \in {d \in Events("defun") : log[d].closure = closure}}

PrintedLines ==
    LET IsPrint(e) == e.ev = "print"
        printed == SelectSeq(log, IsPrint)
    IN  [i \in DOMAIN printed |-> printed[i].line]

C2_DefunPersists ==
    /\ env = EnvAt(GlobalRef, Len(log) + 1)
    /\ \A j \in Events("resolve") :
          log[j].in = GlobalRef
              => log[j].found = GetProperty(EnvAt(GlobalRef, j), log[j].name)

\* the third call of the instance calls a function that the first call
\* defined and that nothing has redefined since
C2_Witness ==
    /\ calls = 3
    /\ ret.status = "returned"
    /\ \E c \in Events("call") :
          /\ log[c].closure.env = GlobalRef
          /\ log[c].fn \in DOMAIN envBefore
          /\ envBefore[log[c].fn] = log[c].closure
          /\ previous.source # ""
          /\ \A d \in Events("defun") : log[d].name # log[c].fn
          /\ ~(\E i \in 1..Len(tokenize(previous.source)) :
                   tokenize(previous.source)[i] = log[c].fn)

(***************************************************************************)
(* C3.  The output buffer holds exactly the lines printed during the last  *)
(* call, in order, and a returned output is those lines joined by newline, *)
(* a newline and the result, or the result alone when nothing was printed. *)
(***************************************************************************)
C3_OutputOfThisCall ==
    /\ output = PrintedLines
    /\ ret.status = "returned" =>
          ret.output = IF PrintedLines # <<>>
                       THEN Join(PrintedLines, "\n") \o "\n" \o ret.result
                       ELSE ret.result
    /\ (source = "(print 'hello) 42" /\ IsPrim(envBefore["print"])) =>
          ret = Returned("42", "hello\n42")

\* a call that prints and returns, right after a call that printed and threw
C3_Witness ==
    /\ previous.ret.status = "threw"
    /\ previous.output # <<>>
    /\ ret.status = "returned"
    /\ PrintedLines # <<>>

(***************************************************************************)
(* C4.  The body of a user function leaves the caller's environment and    *)
(* the global environment as they were: parameters and defuns of the body  *)
(* are written to the call's own environment only.                         *)
(***************************************************************************)
C4_CallLeavesCallerAlone ==
    /\ \A r \in Events("return") :
          /\ log[r].callerAfter = log[r].callerBefore
          /\ log[r].globalAfter = log[r].globalBefore
    /\ \A d \in Events("defun") :
          log[d].in # GlobalRef
              => /\ log[d].target = log[d].in
                 /\ \A n \in DOMAIN env : env[n] # log[d].closure

\* a call with a parameter whose body evaluated a defun has returned, and
\* neither name is bound in the caller's environment or in this.env
C4_Witness ==
    \E c, d, r \in DOMAIN log :
        /\ c < d /\ d < r
        /\ log[c].ev = "call" /\ log[d].ev = "defun" /\ log[r].ev = "return"
        /\ log[r].localRef = log[c].localRef
        /\ log[d].target = log[c].localRef
        /\ ParameterNames(log[c].closure) # {}
        /\ \A n \in ParameterNames(log[c].closure) \cup {log[d].name} :
              n \notin DOMAIN log[r].callerAfter /\ n \notin DOMAIN env

(***************************************************************************)
(* C5.  As claimed: (if C T F) takes the T branch exactly when the value   *)
(* of C is neither false nor nil, the number 0 and the empty list          *)
(* included.                                                               *)
(***************************************************************************)
C5_IfTakesThenUnlessFalseOrNil ==
    \A i \in Events("if") :
        (log[i].branch = "then") <=> NotFalseNotNull(log[i].condition)

(***************************************************************************)
(* C6.  As claimed: (= a b) is true exactly when a and b are structurally  *)
(* equal, so two separately built lists with equal elements are equal.     *)
(***************************************************************************)
RECURSIVE Shape(_)
Shape(v) ==
    IF IsList(v) THEN [list |-> [k \in DOMAIN v.list |-> Shape(v.list[k])]] ELSE v

C6_EqualsIsStructural ==
    \A i \in Events("prim") :
        log[i].name = "="
            => log[i].val = Bool(Shape(At(log[i].args, 1)) = Shape(At(log[i].args, 2)))

(***************************************************************************)
(* C7.  As claimed: a symbol is rendered in uppercase, in the result and   *)
(* in printed lines.                                                       *)
(***************************************************************************)
LowerToUpper ==
    [c \in LowerCaseLetters |-> CHOOSE u \in UpperCaseLetters : UpperToLower[u] = c]

RECURSIVE ToUpperCase(_)
ToUpperCase(s) ==
    IF s = "" THEN ""
    ELSE LET c == SubSeq(s, 1, 1)
         IN  (IF c \in LowerCaseLetters THEN LowerToUpper[c] ELSE c)
                 \o ToUpperCase(Tail(s))

HasNoUpperCase(s) == \A i \in 1..Len(s) : SubSeq(s, i, i) \notin UpperCaseLetters

\* the source text is a quote marker followed by one symbol
IsQuotedSymbol(code) ==
    LET toks == tokenize(code)
    IN  Len(toks) = 2 /\ toks[1] = "'" /\ ~IsNumeric(toks[2]) /\ toks[2] \notin {"(", ")", "'"}

C7_SymbolsPrintUppercase ==
    /\ source = "(if (> 3 2) 'yes 'no)" => ret = Returned("YES", "YES")
    /\ source = "(print 'hello) 42" => ret = Returned("42", "HELLO\n42")
    /\ IsQuotedSymbol(source) =>
          ret.status = "returned" /\ ret.result = ToUpperCase(tokenize(source)[2])

(***************************************************************************)
(* C7 as amended: a symbol is rendered as its lowercased text, in the      *)
(* result and in printed lines: (if (> 3 2) 'yes 'no) gives "yes",         *)
(* (print 'hello) 42 gives the output "hello\n42" and the result "42", and *)
(* the result of 's is s with its uppercase letters lowered.               *)
(***************************************************************************)
C7_SymbolsPrintLowercase ==
    /\ source = "(if (> 3 2) 'yes 'no)" => ret = Returned("yes", "yes")
    /\ source = "(print 'hello) 42" => ret = Returned("42", "hello\n42")
    /\ IsQuotedSymbol(source) =>
          /\ ret.status = "returned"
          /\ HasNoUpperCase(ret.result)
          /\ ToUpperCase(ret.result) = ToUpperCase(tokenize(source)[2])

\* a quoted symbol written with an uppercase letter has been evaluated
C7_Witness ==
    /\ IsQuotedSymbol(source)
    /\ ~HasNoUpperCase(tokenize(source)[2])
    /\ ret.status = "returned"
    /\ ret.result = "yes"

(***************************************************************************)
(* C8.  Parsing a token sequence either raises or consumes every token.    *)
(* Read left to right with the nesting depth and whether a quote marker    *)
(* awaits its expression: a ")" at depth 0 or right after a quote marker   *)
(* raises UnexpectedParenthesis; the end of the tokens raises the          *)
(* dangling-quote error right after a quote marker and                     *)
(* UnmatchedParenthesis at depth > 0; otherwise parse returns one          *)
(* expression per top-level form, each quote marker with its expression E  *)
(* being the two-element list (quote E).                                   *)
(***************************************************************************)
RECURSIVE Scan(_, _, _, _)
Scan(toks, i, depth, quoted) ==
    IF i > Len(toks)
    THEN IF quoted THEN DanglingQuote
         ELSE IF depth > 0 THEN UnmatchedParenthesis ELSE "ok"
    ELSE IF toks[i] = "(" THEN Scan(toks, i + 1, depth + 1, FALSE)
    ELSE IF toks[i] = ")"
    THEN IF quoted \/ depth = 0 THEN UnexpectedParenthesis
         ELSE Scan(toks, i + 1, depth - 1, FALSE)
    ELSE IF toks[i] = "'" THEN Scan(toks, i + 1, depth, TRUE)
    ELSE Scan(toks, i + 1, depth, FALSE)

\* the nesting depth in front of token i
DepthBefore(toks, i) ==
    Cardinality({k \in 1..(i - 1) : toks[k] = "("})
        - Cardinality({k \in 1..(i - 1) : toks[k] = ")"})

\* the tokens that start a top-level form
TopLevelStarts(toks) ==
    {i \in DOMAIN toks : /\ DepthBefore(toks, i) = 0
                         /\ toks[i] # ")"
                         /\ (i = 1 \/ toks[i - 1] # "'")}

AtomText == "7" :> "7" @@ "Ab" :> "ab"

RECURSIVE Unparse(_)
RECURSIVE UnparseAll(_)

UnparseAll(exprs) ==
    IF exprs = <<>> THEN <<>> ELSE Unparse(Head(exprs)) \o UnparseAll(Tail(exprs))

Unparse(expr) ==
    IF IsNum(expr) THEN <<ToString(expr.num)>>
    ELSE IF IsSym(expr) THEN <<expr.sym>>
    ELSE IF Len(expr.list) = 2 /\ expr.list[1] = Sym("quote")
    THEN <<"'">> \o Unparse(expr.list[2])
    ELSE <<"(">> \o UnparseAll(expr.list) \o <<")">>

C8_ParseRaisesOrConsumesAll ==
    parsed # NotCalled =>
        IF Scan(tokens, 1, 0, FALSE) = "ok"
        THEN /\ parsed.status = "returned"
             /\ parsed.index = Len(tokens) + 1
             /\ Len(parsed.exprs) = Cardinality(TopLevelStarts(tokens))
             /\ UnparseAll(parsed.exprs) =
                    [i \in DOMAIN tokens |->
                        IF tokens[i] \in DOMAIN AtomText THEN AtomText[tokens[i]]
                        ELSE tokens[i]]
        ELSE parsed = Threw(Scan(tokens, 1, 0, FALSE))

\* two top-level forms, one of them a quoted list, have been parsed
C8_Witness ==
    /\ parsed # NotCalled
    /\ parsed.status = "returned"
    /\ Len(parsed.exprs) = 2
    /\ \E i \in 1..2 :
          /\ IsList(parsed.exprs[i])
          /\ Len(parsed.exprs[i].list) = 2
          /\ parsed.exprs[i].list[1] = Sym("quote")
          /\ IsList(parsed.exprs[i].list[2])

(***************************************************************************)
(* C9.  As claimed: evaluating a symbol returns its value when the         *)
(* environment binds it to a data value, fails with UnboundSymbol when the *)
(* environment has no binding for it, and fails with CallableUsedAsValue   *)
(* when the environment binds it to a function, for every symbol name.     *)
(***************************************************************************)
C9_SymbolLookup ==
    \A j \in Events("lookup") :
        IF ~log[j].own THEN log[j].err = UndefinedSymbol(log[j].name)
        ELSE IF IsFunction(log[j].found) THEN log[j].err = FunctionAsValue(log[j].name)
        ELSE IF IsUndef(log[j].found) THEN log[j].err = UndefinedSymbol(log[j].name)
        ELSE log[j].err = ""

(***************************************************************************)
(* C10.  As claimed: a call that evaluates no defun leaves this.env as it  *)
(* was, so the same arithmetic expression evaluated twice in a row returns *)
(* the same both times, and that is what a fresh instance returns.         *)
(***************************************************************************)
ArithmeticSources == {"(+ 1 2 3)", "(* (+ 1 2) (- 5 3))"}

OnFreshInstance ==
    "(+ 1 2 3)" :> Returned("6", "6") @@ "(* (+ 1 2) (- 5 3))" :> Returned("6", "6")

OperatorsOf(code) ==
    {tokenize(code)[i] : i \in DOMAIN tokenize(code)} \cap PrimitiveNames

EvaluatedTwice == source \in ArithmeticSources /\ previous.source = source

C10_PureEvaluationAsOnFreshInstance ==
    /\ Events("defun") = {} => env = envBefore
    /\ EvaluatedTwice => ret = previous.ret /\ ret = OnFreshInstance[source]

(***************************************************************************)
(* C10 as amended: a call that evaluates no defun leaves this.env as it    *)
(* was, so the same arithmetic expression evaluated twice in a row returns *)
(* the same both times; that is what a fresh instance returns provided no  *)
(* earlier defun on the instance has rebound an operator the expression    *)
(* uses.                                                                   *)
(***************************************************************************)
C10_PureEvaluationLeavesEnv ==
    /\ Events("defun") = {} => env = envBefore
    /\ EvaluatedTwice => ret = previous.ret
    /\ (/\ source \in ArithmeticSources
        /\ \A op \in OperatorsOf(source) : envBefore[op] = createGlobalEnvironment[op])
          => ret = OnFreshInstance[source]

\* an instance that holds user definitions has evaluated an arithmetic
\* expression twice in a row
C10_Witness ==
    /\ EvaluatedTwice
    /\ Events("defun") = {}
    /\ env # createGlobalEnvironment
    /\ ret = OnFreshInstance[source]

(***************************************************************************)
(* Reading the top-level defun forms of a source text.                     *)
(***************************************************************************)
IsDefunForm(expr) ==
    IsList(expr) /\ Len(expr.list) > 0 /\ expr.list[1] = Sym("defun")

ShapeAll(exprs) == [k \in DOMAIN exprs |-> Shape(exprs[k])]

\* the top-level defun forms of a parsed text, in order: the name, the
\* parameter list and the body of each
SourceDefuns(exprs) ==
    LET forms == SelectSeq(exprs, IsDefunForm)
    IN  [k \in DOMAIN forms |->
            [name |-> At(forms[k].list, 2).sym,
             params |-> Shape(At(forms[k].list, 3)),
             body |-> ShapeAll(Slice(forms[k].list, 4))]]

\* how many defun forms stand at the head of a parsed text, before its first
\* form of another kind
RECURSIVE LeadingDefuns(_, _)
LeadingDefuns(exprs, i) ==
    IF i > Len(exprs) \/ ~IsDefunForm(exprs[i]) THEN 0
    ELSE 1 + LeadingDefuns(exprs, i + 1)

\* the defuns a history has evaluated in this.env, in order
GlobalDefuns(history) ==
    LET IsGlobalDefun(e) == e.ev = "defun" /\ e.target = GlobalRef
    IN  SelectSeq(history, IsGlobalDefun)

DefunShapes(history) ==
    LET made == GlobalDefuns(history)
    IN  [k \in DOMAIN made |->
            [name |-> made[k].name,
             params |-> Shape(made[k].closure.params),
             body |-> ShapeAll(made[k].closure.body)]]

\* the closure the last defun of name in this.env made, in a history that has one
LastDefined(history, name) ==
    LET made == GlobalDefuns(history)
        last == CHOOSE k \in DOMAIN made :
                    /\ made[k].name = name
                    /\ \A m \in DOMAIN made : made[m].name = name => m <= k
    IN  made[last].closure

DefinedNames(history) ==
    {GlobalDefuns(history)[k].name : k \in DOMAIN GlobalDefuns(history)}

\* the last call threw while evaluating an expression, not while parsing
EvaluationFailed == source # "" /\ ret.status = "threw" /\ parse(source, 1).ok

\* the top-level uses, in a history, of a function name that the history has
\* not itself defined before the use
UsesFromBefore(history, name) ==
    {j \in DOMAIN history :
        /\ history[j].ev = "resolve"
        /\ history[j].in = GlobalRef
        /\ history[j].name = name
        /\ \A d \in 1..(j - 1) :
               ~(history[d].ev = "defun" /\ history[d].target = GlobalRef
                                        /\ history[d].name = name)}

\* after a call that threw on its k-th expression: the defuns it evaluated are
\* the defun forms among expressions 1..k-1 (a prefix of the text's defun
\* forms that holds at least those at its head), the names they bound are
\* bound in this.env to the closures they made, and every other binding of
\* this.env is as it was
C11_FailedCallKeepsDefuns ==
    (source # "" /\ ret.status = "threw") =>
        \E p \in {parse(source, 1)} :
            p.ok =>
                \E forms \in {SourceDefuns(p.exprs)} : \E made \in {DefunShapes(log)} :
                    /\ LeadingDefuns(p.exprs, 1) <= Len(made)
                    /\ Len(made) <= Len(forms)
                    /\ made = SubSeq(forms, 1, Len(made))
                    /\ \A name \in DefinedNames(log) :
                           GetProperty(env, name) = LastDefined(log, name)
                    /\ \A name \in DOMAIN envBefore \ DefinedNames(log) :
                           GetProperty(env, name) = envBefore[name]

\* after a call whose text does not parse: the parser's error was thrown, no
\* expression was evaluated and this.env is what it was
C11_SyntaxErrorLeavesEnv ==
    source # "" =>
        \E p \in {parse(source, 1)} :
            ~p.ok => /\ ret = Threw(p.error)
                     /\ log = <<>>
                     /\ env = envBefore

\* the evaluate call that follows a failed one finds, for a name the failed
\* call defined and that it uses at top level, the closure the failed call made
C11_NextCallSeesDefuns ==
    (calls' = calls + 1 /\ DefinedNames(log) # {} /\ EvaluationFailed) =>
        \A name \in DefinedNames(log) : \A j \in UsesFromBefore(log', name) :
            log'[j].found = LastDefined(log, name)

(***************************************************************************)
(* C11.  evaluate is not rolled back on failure.  When a call throws while *)
(* evaluating its k-th top-level expression, the bindings made by the      *)
(* defuns of expressions 1..k-1 stay in this.env and the next evaluate     *)
(* call on the instance sees them.  When the text has a syntax error, the  *)
(* call throws before any expression is evaluated and this.env is what it  *)
(* was.                                                                    *)
(***************************************************************************)
C11_NoRollbackOnFailure ==
    /\ [](C11_FailedCallKeepsDefuns /\ C11_SyntaxErrorLeavesEnv)
    /\ [][C11_NextCallSeesDefuns]_vars

\* a call has run, to its end, a function defined by the call before it,
\* which threw on a later expression of the same text
C11_Witness ==
    /\ calls = 2
    /\ ret.status = "returned"
    /\ previous.ret.status = "threw"
    /\ parse(previous.source, 1).ok
    /\ \E j \in Events("resolve") :
          /\ j \in UsesFromBefore(log, log[j].name)
          /\ IsUserFn(log[j].found)
          /\ LeadingDefuns(parse(previous.source, 1).exprs, 1) > 0
          /\ log[j].name = SourceDefuns(parse(previous.source, 1).exprs)[1].name
          /\ Shape(log[j].found.params) = SourceDefuns(parse(previous.source, 1).exprs)[1].params
          /\ ShapeAll(log[j].found.body) = SourceDefuns(parse(previous.source, 1).exprs)[1].body
          /\ \E r \in Events("return") : r > j

=============================================================================
